---------------------------- MODULE Spec2Model ----------------------------
(***************************************************************************)
(* inbox-parser (src/src/main.rs): one run of `main` reads a mailbox       *)
(* archive entry by entry, builds one EmailEntry per entry and inserts it  *)
(* into the table `emails`, counting successes and failures.               *)
(*                                                                         *)
(* Text (addresses, header values) is a sequence of one-character strings, *)
(* so that the address pattern RE can be run on it.  The libraries the     *)
(* program calls (mbox_reader, mailparse, chrono, postgres) are modelled   *)
(* at the interface main.rs uses.                                          *)
(***************************************************************************)
EXTENDS Integers, Sequences, FiniteSets, TLC

VARIABLES
    pc,                     \* position of main: which statement runs next
    table,                  \* the table `emails`: [exists, rows]
    mailbox,                \* the archive: per position, the entries it may hold
    pos,                    \* enumerate(): index the next entry will get
    entry,                  \* the entry the pipeline is working on
    address,                \* main.rs:82, what parse_address returned
    built,                  \* main.rs:79-90, Result<EmailEntry> of the first map
    outcome,                \* main.rs:91-98, Result<()> of the second map
    process_success_count,  \* main.rs:74 (i32)
    process_failure_count,  \* main.rs:75 (usize)
    printed,                \* the count lines written so far
    result,                 \* what main returned
    calls,                  \* history: the insert calls made, in order
    outcomes,               \* history: terminal state of each tallied entry
    table0,                 \* history: the table before the run started
    run,                    \* 1 for the first run, 2 for the re-run
    first                   \* history: how the first run ended

vars == << pc, table, mailbox, pos, entry, address, built, outcome,
           process_success_count, process_failure_count, printed, result,
           calls, outcomes, table0, run, first >>

-----------------------------------------------------------------------------
(* Bounds *)

\* Stand-in for i32::MAX (2^31 - 1): the largest value of the id type and of
\* the i32 success counter, scaled down so that the id conversion can fail.
I32Max == 2

\* Longest archive of the re-run specification.
MaxRerunEntries == 2

I32Min == -I32Max - 1

\* Longest archive of a single run: one entry more than there are ids, plus
\* one, so that an entry follows the first failed id conversion.
MaxEntries == I32Max + 2

-----------------------------------------------------------------------------
(* Text *)

EnvelopeAddress == << "e", "@", "v" >>
DaemonAddress   == << "m", "d" >>
AliceHeader     == << "A", " ", "<", "a", "@", "x", ">" >>
BobHeader       == << "b", "@", "y" >>
EmptyText       == << >>

\* Envelope addresses: one with a domain, one without '@'.
EnvelopeAddresses == { EnvelopeAddress, DaemonAddress }

\* main.rs:11, the characters the classes [^<>@\s] of RE reject.
Excluded == { "<", ">", "@", " ", "\t", "\n", "\r" }

InClass(c) == c \notin Excluded

\* Last index of the longest run of class characters of s that starts at i.
RECURSIVE RunEnd(_, _)
RunEnd(s, i) ==
    IF i < Len(s) /\ InClass(s[i + 1]) THEN RunEnd(s, i + 1) ELSE i

\* RE matches at i: [^<>@\s]+ is greedy and cannot hold '@', so it takes the
\* whole run from i, which '@' and one more class character must follow.
MatchesAt(s, i) ==
    /\ InClass(s[i])
    /\ RunEnd(s, i) + 2 <= Len(s)
    /\ s[RunEnd(s, i) + 1] = "@"
    /\ InClass(s[RunEnd(s, i) + 2])

\* main.rs:11 and 84, RE.captures: the leftmost match, or none.
RE_captures(s) ==
    LET starts == { i \in 1..Len(s) : MatchesAt(s, i) }
    IN  IF starts = {}
        THEN [matched |-> FALSE, domain |-> EmptyText]
        ELSE LET i == CHOOSE k \in starts : \A j \in starts : k <= j
                 d == RunEnd(s, i) + 2
             IN  [matched |-> TRUE, domain |-> SubSeq(s, d, RunEnd(s, d))]

\* main.rs:83-87: the named group of the first match, or "".
Domain(addr) ==
    IF RE_captures(addr).matched THEN RE_captures(addr).domain ELSE EmptyText

-----------------------------------------------------------------------------
(* Envelope dates and chrono's parse *)

Weekdays == { "Mon", "Tue", "Wed", "Thu", "Fri", "Sat", "Sun" }
Months   == << "Jan", "Feb", "Mar", "Apr", "May", "Jun",
               "Jul", "Aug", "Sep", "Oct", "Nov", "Dec" >>

\* A date string is its whitespace-separated fields; a field is a word, a
\* number, a clock time h:m:s, a signed offset hhmm, or some other text.
Field(kind, text, n) == [kind |-> kind, text |-> text, n |-> n]

\* "Wed Jan 2 15:04:05 +0000 2013"
LayoutDate ==
    << Field("word", "Wed", << >>), Field("word", "Jan", << >>),
       Field("number", "", << 2 >>), Field("time", "", << 15, 4, 5 >>),
       Field("offset", "+", << 0, 0 >>), Field("number", "", << 2013 >>) >>

\* "2013-01-02T15:04:05Z"
IsoDate == << Field("other", "2013-01-02T15:04:05Z", << >>) >>

\* main.rs:51, the layout "%a %b %d %T %z %Y", one item per field.
Layout == << "%a", "%b", "%d", "%T", "%z", "%Y" >>

FieldMatches(item, f) ==
    CASE item = "%a" -> f.kind = "word" /\ f.text \in Weekdays
      [] item = "%b" -> f.kind = "word" /\ \E m \in 1..12 : Months[m] = f.text
      [] item = "%d" -> f.kind = "number" /\ f.n[1] \in 1..31
      [] item = "%T" -> f.kind = "time" /\ f.n[1] \in 0..23
                        /\ f.n[2] \in 0..59 /\ f.n[3] \in 0..60
      [] item = "%z" -> f.kind = "offset" /\ f.text \in { "+", "-" }
                        /\ f.n[1] \in 0..23 /\ f.n[2] \in 0..59
      [] item = "%Y" -> f.kind = "number"
      [] OTHER -> FALSE

NoTimestamp == [year |-> 0, month |-> 0, day |-> 0, hour |-> 0, minute |-> 0,
                second |-> 0, offset |-> 0]

\* main.rs:49-55: Ok(instant) when the date has exactly the layout's fields,
\* each of the layout's kind; Err otherwise.  No other format is tried.
parse_message_timestamp(e) ==
    LET d == e.date
    IN  IF Len(d) = Len(Layout)
           /\ \A k \in 1..Len(Layout) : FieldMatches(Layout[k], d[k])
        THEN [ok |-> TRUE,
              val |-> [year   |-> d[6].n[1],
                       month  |-> CHOOSE m \in 1..12 : Months[m] = d[2].text,
                       day    |-> d[3].n[1],
                       hour   |-> d[4].n[1],
                       minute |-> d[4].n[2],
                       second |-> d[4].n[3],
                       offset |-> (IF d[5].text = "-" THEN -1 ELSE 1)
                                    * (60 * d[5].n[1] + d[5].n[2])]]
        ELSE [ok |-> FALSE, val |-> NoTimestamp]

-----------------------------------------------------------------------------
(* Messages and parse_address *)

Header(key, value) == [key |-> key, value |-> value]

\* An entry's attached message, as mailparse sees it: whether there is one,
\* whether parse_mail accepts it, and its headers in order.
NoMessage    == [present |-> FALSE, wellFormed |-> FALSE, headers |-> << >>]
Malformed    == [present |-> TRUE, wellFormed |-> FALSE, headers |-> << >>]
Message(hs)  == [present |-> TRUE, wellFormed |-> TRUE, headers |-> hs]

Subject == Header("Subject", << "h", "i" >>)

Messages ==
    { NoMessage,
      Malformed,
      Message(<< Subject >>),
      Message(<< Header("From", AliceHeader) >>),
      Message(<< Subject, Header("From", BobHeader),
                 Header("From", AliceHeader) >>),
      Message(<< Header("From", EmptyText) >>) }

Dates == { LayoutDate, IsoDate }

\* The entries an archive may hold.
Entries ==
    { [address |-> a, date |-> d, message |-> m] :
        a \in EnvelopeAddresses, d \in Dates, m \in Messages }

NoRawEntry == [address |-> EmptyText, date |-> << >>, message |-> NoMessage]

\* main.rs:42, get_first_value(key): the value of the first header with the key.
get_first_value(hs, key) ==
    LET at == { k \in 1..Len(hs) : hs[k].key = key }
    IN  IF at = {}
        THEN [some |-> FALSE, val |-> EmptyText]
        ELSE [some |-> TRUE,
              val  |-> hs[CHOOSE k \in at : \A j \in at : k <= j].value]

Ok(v)  == [ok |-> TRUE, val |-> v]
Err(v) == [ok |-> FALSE, val |-> v]

\* Mutant: a message that does not parse falls back to the envelope address.
parse_address_fallback(e) ==
    IF e.message.present /\ e.message.wellFormed
       /\ get_first_value(e.message.headers, "From").some
    THEN Ok(get_first_value(e.message.headers, "From").val)
    ELSE Ok(e.address)

\* main.rs:34-47.
parse_address(e) ==
    LET address_from_start == e.address
    IN  IF ~e.message.present THEN Ok(address_from_start)
        ELSE IF ~e.message.wellFormed THEN Err(EmptyText)
        ELSE IF get_first_value(e.message.headers, "From").some
             THEN Ok(get_first_value(e.message.headers, "From").val)
             ELSE Ok(address_from_start)

-----------------------------------------------------------------------------
(* The record builder: the first map closure *)

\* Mutant: ids are counted from one.
i32_try_from_one_based(n) == IF n + 1 <= I32Max THEN Ok(n + 1) ELSE Err(0)

\* main.rs:81, i32::try_from(id) of the usize index.
i32_try_from(n) == IF n <= I32Max THEN Ok(n) ELSE Err(0)

\* main.rs:14-19.
EmailEntry(id, addr, domain, ts) ==
    [id |-> id, address |-> addr, domain |-> domain, message_timestamp |-> ts]

NoEmailEntry == EmailEntry(0, EmptyText, EmptyText, NoTimestamp)

Built(v)    == [ok |-> TRUE, val |-> v, err |-> "none"]
NotBuilt(e) == [ok |-> FALSE, val |-> NoEmailEntry, err |-> e]

\* Mutant: an address without a domain is an error.
build_entry_requires_domain(i, e) ==
    IF ~i32_try_from(i).ok THEN NotBuilt("TryFromIntError")
    ELSE IF ~parse_address(e).ok THEN NotBuilt("MailParseError")
    ELSE IF Domain(parse_address(e).val) = EmptyText THEN NotBuilt("NoDomain")
    ELSE IF ~parse_message_timestamp(e).ok THEN NotBuilt("ParseError")
    ELSE Built(EmailEntry(i32_try_from(i).val,
                          parse_address(e).val,
                          Domain(parse_address(e).val),
                          parse_message_timestamp(e).val))

\* main.rs:79-90: each `?` returns the first error; the domain never does.
build_entry(i, e) ==
    IF ~i32_try_from(i).ok THEN NotBuilt("TryFromIntError")
    ELSE IF ~parse_address(e).ok THEN NotBuilt("MailParseError")
    ELSE IF ~parse_message_timestamp(e).ok THEN NotBuilt("ParseError")
    ELSE Built(EmailEntry(i32_try_from(i).val,
                          parse_address(e).val,
                          Domain(parse_address(e).val),
                          parse_message_timestamp(e).val))

-----------------------------------------------------------------------------
(* The table and the loader *)

NoTable    == [exists |-> FALSE, rows |-> {}]
EmptyTable == [exists |-> TRUE, rows |-> {}]

\* A table an earlier run, over some other archive, left behind.
StaleTable ==
    [exists |-> TRUE,
     rows   |-> { EmailEntry(0, BobHeader, << "y" >>,
                             parse_message_timestamp(
                                 [date |-> LayoutDate]).val),
                  EmailEntry(7, DaemonAddress, EmptyText,
                             parse_message_timestamp(
                                 [date |-> LayoutDate]).val) }]

InitialTables == { NoTable, StaleTable }

\* Mutant: the table is created when missing and never dropped.
batch_execute_no_drop(t) == IF t.exists THEN t ELSE EmptyTable

\* Mutant: the table is dropped and not created again.
batch_execute_drop_only(t) == NoTable

\* main.rs:60-68: DROP TABLE IF EXISTS, then CREATE TABLE.
batch_execute(t) == EmptyTable

\* main.rs:94: whether the INSERT of r may succeed and may fail.  It fails
\* when the table is missing or holds the primary key already; any call may
\* fail for the connection's sake.
execute_outcomes(t, r) ==
    IF t.exists /\ \A x \in t.rows : x.id # r.id
    THEN { TRUE, FALSE } ELSE { FALSE }

insert_row(t, r) == [t EXCEPT !.rows = @ \cup { r }]

\* main.rs:102, `+= 1` on the i32 counter: past i32::MAX the build with
\* overflow checks panics and the build without them wraps.
add_one_i32(n) ==
    IF n + 1 > I32Max
    THEN { [panic |-> TRUE, val |-> n], [panic |-> FALSE, val |-> I32Min] }
    ELSE { [panic |-> FALSE, val |-> n + 1] }

-----------------------------------------------------------------------------
(* main *)

NoEntry   == [id |-> 0, entry |-> NoRawEntry]
NoAddress == [ran |-> FALSE, ok |-> FALSE, val |-> EmptyText]
NoBuilt   == NotBuilt("none")
NoOutcome == [ok |-> FALSE, err |-> "none"]

Running      == [kind |-> "running", failed_email_count |-> 0]
Fatal(e)     == [kind |-> e, failed_email_count |-> 0]
ReturnOk     == [kind |-> "Ok", failed_email_count |-> 0]
\* main.rs:21-24 and 115.
InboxParserError(n) == [kind |-> "InboxParserError", failed_email_count |-> n]

NoFirst == [pc |-> "none", table |-> NoTable, outcomes |-> << >>]

Ended == { "done", "aborted", "panicked" }

\* The state main starts from, for a given table and archive.
Start(t, m, r, f) ==
    /\ pc = "connect"
    /\ table = t
    /\ table0 = t
    /\ mailbox = m
    /\ pos = 0
    /\ entry = NoEntry
    /\ address = NoAddress
    /\ built = NoBuilt
    /\ outcome = NoOutcome
    /\ process_success_count = 0
    /\ process_failure_count = 0
    /\ printed = << >>
    /\ result = Running
    /\ calls = << >>
    /\ outcomes = << >>
    /\ run = r
    /\ first = f

\* An archive of n entries, each of which may be any entry.
AnyArchive(n) == [k \in 1..n |-> Entries]

Init ==
    \E t \in InitialTables, n \in 0..MaxEntries :
        Start(t, AnyArchive(n), 1, NoFirst)

\* A fatal error before the loop: `?` returns it from main.
Abort(e) ==
    /\ pc' = "aborted"
    /\ result' = Fatal(e)

\* main.rs:58.
Connect ==
    /\ pc = "connect"
    /\ \E ok \in BOOLEAN :
         IF ok THEN pc' = "schema" /\ result' = result ELSE Abort("connect")
    /\ UNCHANGED << table, mailbox, pos, entry, address, built, outcome,
                    process_success_count, process_failure_count, printed,
                    calls, outcomes, table0, run, first >>

\* main.rs:60-68: the batch runs as one transaction.
CreateTable ==
    /\ pc = "schema"
    /\ \E ok \in BOOLEAN :
         IF ok
         THEN pc' = "prepare" /\ result' = result
              /\ table' = batch_execute(table)
         ELSE Abort("batch_execute") /\ table' = table
    /\ UNCHANGED << mailbox, pos, entry, address, built, outcome,
                    process_success_count, process_failure_count, printed,
                    calls, outcomes, table0, run, first >>

\* main.rs:70.
Prepare ==
    /\ pc = "prepare"
    /\ \E ok \in BOOLEAN :
         IF ok THEN pc' = "open" /\ result' = result ELSE Abort("prepare")
    /\ UNCHANGED << table, mailbox, pos, entry, address, built, outcome,
                    process_success_count, process_failure_count, printed,
                    calls, outcomes, table0, run, first >>

\* main.rs:72.
OpenMailbox ==
    /\ pc = "open"
    /\ \E ok \in BOOLEAN :
         IF ok THEN pc' = "next" /\ result' = result ELSE Abort("from_file")
    /\ UNCHANGED << table, mailbox, pos, entry, address, built, outcome,
                    process_success_count, process_failure_count, printed,
                    calls, outcomes, table0, run, first >>

\* main.rs:77-78: for_each pulls the next entry through enumerate; when the
\* archive is exhausted the loop ends.
NextEntry ==
    /\ pc = "next"
    /\ IF pos < Len(mailbox)
       THEN /\ \E e \in mailbox[pos + 1] : entry' = [id |-> pos, entry |-> e]
            /\ pos' = pos + 1
            /\ pc' = "build"
       ELSE /\ pc' = "report"
            /\ UNCHANGED << pos, entry >>
    /\ UNCHANGED << table, mailbox, address, built, outcome,
                    process_success_count, process_failure_count, printed,
                    result, calls, outcomes, table0, run, first >>

\* main.rs:79-90.
BuildRecord ==
    /\ pc = "build"
    /\ address' = IF i32_try_from(entry.id).ok
                  THEN [ran |-> TRUE, ok |-> parse_address(entry.entry).ok,
                        val |-> parse_address(entry.entry).val]
                  ELSE NoAddress
    /\ built' = build_entry(entry.id, entry.entry)
    /\ pc' = "insert"
    /\ UNCHANGED << table, mailbox, pos, entry, outcome,
                    process_success_count, process_failure_count, printed,
                    result, calls, outcomes, table0, run, first >>

\* main.rs:91-98.
Insert ==
    /\ pc = "insert"
    /\ IF built.ok
       THEN /\ calls' = Append(calls, [index |-> entry.id, id |-> built.val.id])
            /\ \E ok \in execute_outcomes(table, built.val) :
                 IF ok
                 THEN /\ table' = insert_row(table, built.val)
                      /\ outcome' = [ok |-> TRUE, err |-> "none"]
                 ELSE /\ table' = table
                      /\ outcome' = [ok |-> FALSE, err |-> "postgres"]
       ELSE /\ outcome' = [ok |-> FALSE, err |-> built.err]
            /\ UNCHANGED << calls, table >>
    /\ pc' = "tally"
    /\ UNCHANGED << mailbox, pos, entry, address, built,
                    process_success_count, process_failure_count, printed,
                    result, outcomes, table0, run, first >>

\* Mutant: the loop stops at the first failed entry.
after_tally_stop(ok) == IF ok THEN "next" ELSE "report"

\* Mutant: a failed entry is sent to the loader again.
after_tally_retry(ok) == IF ok THEN "next" ELSE "insert"

\* main.rs:99-108: for_each goes on to the next entry whatever the outcome.
after_tally(ok) == "next"

\* Mutant: the failure count is not looked at.
exit_result_always_ok(failed) == ReturnOk

\* main.rs:113-116.
exit_result(failed) ==
    IF failed = 0 THEN ReturnOk ELSE InboxParserError(failed)

\* The state in which an entry ends.
Terminal(b, o) ==
    IF o.ok THEN "Persisted"
    ELSE IF b.ok THEN "PersistFailed" ELSE "ParseFailed"

\* main.rs:99-108.
Tally ==
    /\ pc = "tally"
    /\ IF outcome.ok
       THEN /\ \E sum \in add_one_i32(process_success_count) :
                 IF sum.panic
                 THEN /\ pc' = "panicked"
                      /\ result' = Fatal("panic")
                      /\ UNCHANGED << process_success_count, outcomes,
                                      entry, address, built, outcome >>
                 ELSE /\ process_success_count' = sum.val
                      /\ outcomes' = Append(outcomes, Terminal(built, outcome))
                      /\ pc' = after_tally(TRUE)
                      /\ entry' = NoEntry
                      /\ address' = NoAddress
                      /\ built' = NoBuilt
                      /\ outcome' = NoOutcome
                      /\ result' = result
            /\ UNCHANGED process_failure_count
       ELSE /\ process_failure_count' = process_failure_count + 1
            /\ outcomes' = Append(outcomes, Terminal(built, outcome))
            /\ pc' = after_tally(FALSE)
            /\ entry' = NoEntry
            /\ address' = NoAddress
            /\ built' = NoBuilt
            /\ outcome' = NoOutcome
            /\ UNCHANGED << process_success_count, result >>
    /\ UNCHANGED << table, mailbox, pos, printed, calls, table0, run, first >>

\* main.rs:110-116.
Report ==
    /\ pc = "report"
    /\ printed' = << [stream |-> "stdout", count |-> process_success_count],
                     [stream |-> "stderr", count |-> process_failure_count] >>
    /\ result' = exit_result(process_failure_count)
    /\ pc' = "done"
    /\ UNCHANGED << table, mailbox, pos, entry, address, built, outcome,
                    process_success_count, process_failure_count,
                    calls, outcomes, table0, run, first >>

\* The program is started again on the same archive, the table left as the
\* first run left it.
Rerun ==
    /\ run = 1
    /\ pc \in Ended
    /\ first' = [pc |-> pc, table |-> table, outcomes |-> outcomes]
    /\ run' = 2
    /\ pc' = "connect"
    /\ table0' = table
    /\ pos' = 0
    /\ entry' = NoEntry
    /\ address' = NoAddress
    /\ built' = NoBuilt
    /\ outcome' = NoOutcome
    /\ process_success_count' = 0
    /\ process_failure_count' = 0
    /\ printed' = << >>
    /\ result' = Running
    /\ calls' = << >>
    /\ outcomes' = << >>
    /\ UNCHANGED << table, mailbox >>

Next ==
    \/ Connect
    \/ CreateTable
    \/ Prepare
    \/ OpenMailbox
    \/ NextEntry
    \/ BuildRecord
    \/ Insert
    \/ Tally
    \/ Report

Spec == Init /\ [][Next]_vars

\* Two runs over one archive whose entries are fixed in advance.
RerunEntries ==
    { e \in Entries :
        /\ e.address = EnvelopeAddress
        /\ e.message \in { NoMessage, Message(<< Header("From", AliceHeader) >>) } }

RECURSIVE ArchivesOf(_)
ArchivesOf(n) ==
    IF n = 0 THEN { << >> }
    ELSE { Append(a, { e }) : a \in ArchivesOf(n - 1), e \in RerunEntries }

FixedArchives == UNION { ArchivesOf(n) : n \in 0..MaxRerunEntries }

RerunInit ==
    \E t \in InitialTables, m \in FixedArchives : Start(t, m, 1, NoFirst)

RerunNext == Next \/ Rerun

RerunSpec == RerunInit /\ [][RerunNext]_vars

-----------------------------------------------------------------------------
(* Properties *)

Persisted(o)     == { k \in 1..Len(o) : o[k] = "Persisted" }
NotPersisted(o)  == { k \in 1..Len(o) : o[k] # "Persisted" }
FailedInserts(o) == { k \in 1..Len(o) : o[k] = "PersistFailed" }

LoopEnded == pc \in { "report", "done" }

\* The entry in hand has been through the insert stage.
AfterInsertStage == pc = "tally"

\* An insert call was made for the entry in hand.
Attempted ==
    /\ calls # << >>
    /\ calls[Len(calls)].index = entry.id

\* The stages of an entry, read off the entry itself.
HasLayout(d)      == d = LayoutDate
MessageParses(m)  == ~m.present \/ m.wellFormed
IdFits(i)         == i <= I32Max
HasFrom(m)        == \E k \in 1..Len(m.headers) : m.headers[k].key = "From"
IsFirstFrom(m, v) ==
    \E k \in 1..Len(m.headers) :
        /\ m.headers[k].key = "From"
        /\ m.headers[k].value = v
        /\ \A j \in 1..(k - 1) : m.headers[j].key # "From"

\* C1: when the loop has ended, successCount + failureCount equals the
\* number of entries of the archive.
C1_CountsSumToTotal ==
    LoopEnded =>
        process_success_count + process_failure_count = Len(mailbox)

\* C2: once an insert has failed, the run is not halted: the failure is
\* counted once in failureCount, the loop ends only when every entry of the
\* archive has been read and tallied, and a later entry whose id, address and
\* timestamp succeed is handed to the loader.
C2_InsertFailureContained ==
    FailedInserts(outcomes) # {} =>
        /\ pc \notin { "aborted", "panicked" }
        /\ process_failure_count = Cardinality(NotPersisted(outcomes))
        /\ LoopEnded => pos = Len(mailbox) /\ Len(outcomes) = Len(mailbox)
        /\ ( /\ AfterInsertStage
             /\ IdFits(entry.id)
             /\ MessageParses(entry.entry.message)
             /\ HasLayout(entry.entry.date) ) => Attempted

\* An insert failed for the first entry, the second was handed to the loader
\* and persisted, and the run went on to its end.
C2_Witness ==
    /\ pc = "done"
    /\ Len(outcomes) = 3
    /\ outcomes[1] = "PersistFailed"
    /\ outcomes[2] = "Persisted"
    /\ process_failure_count >= 1

\* C3: once the loop has finished, main returns Ok exactly when failureCount
\* is 0, otherwise the error that carries failureCount; an empty archive
\* gives 0 and 0 and Ok.
C3_ExitOutcome ==
    pc = "done" =>
        /\ result.kind = "Ok" <=> process_failure_count = 0
        /\ result.kind \in { "Ok", "InboxParserError" }
        /\ result.kind = "InboxParserError" =>
               result.failed_email_count = process_failure_count
        /\ Len(mailbox) = 0 =>
               /\ process_success_count = 0
               /\ process_failure_count = 0
               /\ result = ReturnOk

C3_Witness ==
    /\ pc = "done"
    /\ process_failure_count = 2
    /\ result = InboxParserError(2)

\* C4: the id of every insert call is the zero-based position of its entry,
\* so the ids of successive calls strictly increase and none is used twice.
C4_IdIsPosition ==
    \A k \in 1..Len(calls) :
        /\ calls[k].id = calls[k].index
        /\ k > 1 => calls[k - 1].id < calls[k].id

\* An entry failed, and the next one was inserted under its own position.
C4_Witness ==
    /\ Len(outcomes) >= 1
    /\ outcomes[1] = "ParseFailed"
    /\ Len(calls) = 2
    /\ calls[1].id = 1
    /\ calls[2].id = 2

\* C5: an insert is attempted for an entry exactly when its id conversion,
\* its address extraction and its timestamp parse succeed; an entry whose
\* date has not the layout fails and is not inserted; the domain, empty or
\* not, neither prevents the insert nor counts as a failure.
C5_InsertIffExtracted ==
    /\ process_failure_count = Cardinality(NotPersisted(outcomes))
    /\ AfterInsertStage =>
        /\ Attempted <=> ( /\ IdFits(entry.id)
                           /\ MessageParses(entry.entry.message)
                           /\ HasLayout(entry.entry.date) )
        /\ ~HasLayout(entry.entry.date) => ~Attempted /\ ~outcome.ok
        /\ Attempted => outcome.ok \/ outcome.err = "postgres"

\* An address without a domain was inserted and tallied as a success.
C5_Witness ==
    /\ AfterInsertStage
    /\ Attempted
    /\ built.val.domain = EmptyText
    /\ built.val.address = DaemonAddress
    /\ outcome.ok

OpenFailed == pc = "aborted" /\ result.kind = "from_file"

\* C6: when the archive cannot be opened, no insert is attempted, no count
\* line is written, and the table is as it was before the run.
C6_TableUntouched ==
    OpenFailed =>
        /\ calls = << >>
        /\ printed = << >>
        /\ table = table0

\* C6 as amended: when the archive cannot be opened, no entry is read, no
\* insert is attempted and no count line is written; the table has already
\* been dropped and created again, so it exists and is empty.
C6_TableRecreatedEmpty ==
    OpenFailed =>
        /\ calls = << >>
        /\ outcomes = << >>
        /\ pos = 0
        /\ printed = << >>
        /\ table = EmptyTable

C6_Witness ==
    /\ OpenFailed
    /\ table0 = StaleTable
    /\ table = EmptyTable

\* C7: every record handed to the loader has a non-empty address.
C7_AddressNonEmpty ==
    (pc \in { "insert", "tally" } /\ built.ok) => built.val.address # EmptyText

BothRunsDone == run = 2 /\ pc = "done" /\ first.pc = "done"

\* C8: two runs over the same archive end with the same rows.
C8_SameTable ==
    BothRunsDone => table = first.table

\* C8 as amended: two runs over the same archive in which the same insert
\* calls fail end with the same rows, whatever the table held before each
\* run: each run leaves exactly the rows of the entries it persisted.
C8_SameTableSameFailures ==
    /\ pc = "done" =>
        /\ Cardinality(table.rows) = Cardinality(Persisted(outcomes))
        /\ \A r \in table.rows : (r.id + 1) \in Persisted(outcomes)
    /\ ( /\ BothRunsDone
         /\ FailedInserts(outcomes) = FailedInserts(first.outcomes) ) =>
            table = first.table

\* The second run started from the rows of the first, failed the same
\* insert, and ended with the same rows.
C8_Witness ==
    /\ BothRunsDone
    /\ FailedInserts(outcomes) = { 1 }
    /\ FailedInserts(first.outcomes) = { 1 }
    /\ Persisted(outcomes) = { 2 }
    /\ table0 # EmptyTable
    /\ table = first.table

\* C9: the address of an entry is the envelope address when there is no
\* message; a failure when the message does not parse; the value of the
\* first From header when there is one; the envelope address when the
\* message parses and has no From header.
C9_AddressDecisionTable ==
    (pc \in { "insert", "tally" } /\ IdFits(entry.id)) =>
        LET e == entry.entry
            m == e.message
        IN  /\ address.ran
            /\ ~m.present => address.ok /\ address.val = e.address
            /\ (m.present /\ ~m.wellFormed) =>
                   /\ ~address.ok
                   /\ ~built.ok
                   /\ ~Attempted
                   /\ pc = "tally" => ~outcome.ok
            /\ (m.present /\ m.wellFormed /\ HasFrom(m)) =>
                   address.ok /\ IsFirstFrom(m, address.val)
            /\ (m.present /\ m.wellFormed /\ ~HasFrom(m)) =>
                   address.ok /\ address.val = e.address

\* The message holds two From headers after a Subject; the first one wins
\* over the second and over the envelope address.
C9_Witness ==
    /\ pc = "insert"
    /\ Len(entry.entry.message.headers) = 3
    /\ address.ok
    /\ address.val = BobHeader
    /\ address.val # entry.entry.address

TerminalStates == { "Persisted", "PersistFailed", "ParseFailed" }

\* Each persisted entry added one to the i32 success counter.
SuccessTallied ==
    (process_success_count - Cardinality(Persisted(outcomes)))
        % (2 * (I32Max + 1)) = 0

\* C10: when entry i is read, every entry before it is in its terminal state
\* and tallied; insert calls come in archive order, at most one per entry;
\* a tallied entry is not touched again.
C10_Streaming ==
    /\ [](/\ pc \in { "build", "insert", "tally" } =>
               /\ pos = entry.id + 1
               /\ Len(outcomes) = entry.id
          /\ pc \in { "next", "report", "done" } => Len(outcomes) = pos
          /\ \A k \in 1..Len(outcomes) : outcomes[k] \in TerminalStates
          /\ process_failure_count = Cardinality(NotPersisted(outcomes))
          /\ SuccessTallied
          /\ \A k \in 1..Len(calls) :
               /\ k > 1 => calls[k - 1].index < calls[k].index
               /\ \/ calls[k].index < Len(outcomes)
                  \/ /\ k = Len(calls)
                     /\ calls[k].index = Len(outcomes)
                     /\ pc \in { "tally", "panicked" })
    /\ [][/\ pos' \in { pos, pos + 1 }
          /\ \/ outcomes' = outcomes
             \/ \E t \in TerminalStates : outcomes' = Append(outcomes, t)
          /\ \/ calls' = calls
             \/ /\ Len(calls') = Len(calls) + 1
                /\ SubSeq(calls', 1, Len(calls)) = calls
                /\ calls'[Len(calls')].index = Len(outcomes)]_vars

\* The third entry is read after the first was persisted and the second
\* failed at the loader.
C10_Witness ==
    /\ pc = "build"
    /\ entry.id = 2
    /\ outcomes = << "Persisted", "PersistFailed" >>
    /\ Len(calls) = 2

=============================================================================
